---------------------------- MODULE Spec2Model ----------------------------
(***************************************************************************)
(* FaceMeshView (src/unnamed/part_004): the alignment evaluator, the       *)
(* engagement state kept in the component's refs, the requestAnimationFrame*)
(* render loop, the camera start/stop handlers and the capture pipeline     *)
(* (captureScreenshot with its two sinks); and the POST handler of        *)
(* src/skin-front/app/api/save-image/route.ts that stores a captured image. *)
(*                                                                         *)
(* Coordinates are hundredths of the normalized unit (0.34 is 34); the     *)
(* non-finite and non-number values a JavaScript coordinate can take are   *)
(* kept as separate kinds.  renderLoop contains no await, so one call of   *)
(* it is one atomic step; the promise kept in processingPromiseRef is      *)
(* therefore always settled and awaiting it in stopCamera never lets       *)
(* another task in.                                                        *)
(***************************************************************************)
EXTENDS Integers, Sequences, FiniteSets, TLC

VARIABLES
  \* ---- refs and resources of the component
  bundleReady,            \* isReady / bundleRef.current !== null
  consoleError,           \* the function console.error names
  isCameraOn,             \* isCameraOnRef
  stream,                 \* streamRef.current !== null
  hasAnimationStarted,    \* hasAnimationStartedRef (TRUE: phase Locked)
  closeFrameCount,        \* closeFrameCountRef
  disengageCount,         \* disengageCountRef
  missCount,              \* missCountRef
  autoCaptureFrameCount,  \* autoCaptureFrameCountRef
  hasAutoCaptured,        \* hasAutoCapturedRef
  animationStart,         \* animationStartRef: NoTime (null), or how long before the
                          \* last reading of performance.now() the stored time lies
  lastLandmarks,          \* lastLandmarksRef ("null" or "faces")
  guideHighlighted,       \* guideHighlightedRef
  \* ---- scheduling
  scheduled,              \* pending requestAnimationFrame callbacks (FIFO)
  refPending,             \* requestIdRef names a callback that is still pending
  nGum,                   \* startCamera calls awaiting getUserMedia
  nPlay,                  \* startCamera calls awaiting video.play()
  pc,                     \* "idle", or "startLoop": inside startCamera, before line 613
  \* ---- environment
  meshOnCanvas,           \* the overlay canvas currently shows the mesh
  canvasSized,            \* canvas width/height equal the video's
  videoReady,             \* video.readyState >= 2
  \* ---- observers of the history (no code reads them)
  lastEvent,              \* what the last step was and what it was fed
  closeStreak,            \* consecutive close, not aligned frames fed from Guide with count 0
  farStreak,              \* consecutive not-close/no-detection frames in Locked
  closeSinceLock,         \* consecutive close frames since the phase became Locked
  autoCaptureCalls,       \* captureScreenshot(true) calls since the last start/stop reset
  missStreak,             \* consecutive frames without a face since the last frame with
                          \* one, while no reversion has cleared the landmarks (-1: none)
  stopped,                \* stopCamera ended an active session; since then startCamera has
                          \* not been called and the camera has not come on
  \* ---- the evaluator on its own (EvalSpec)
  evalIn, evalOut,
  \* ---- the capture pipeline (CaptureSpec)
  capCalls,               \* the captureScreenshot calls made, each with its position
  artifact,               \* capturedBlobRef / capturedImageRef / capturedImageUrl
  captureCanvas,          \* the video frame drawn on captureCanvasRef's canvas
  videoFrame,             \* the frame the video element shows
  \* ---- POST /api/save-image
  reqFile,                \* the form has an 'image' entry
  reqFilename,            \* the form's 'filename', split at every "/"
  routeStatus,            \* the status of the response, 0 before it is sent
  written                 \* the path fs.writeFile has written

engVars == <<hasAnimationStarted, closeFrameCount, disengageCount, missCount,
             autoCaptureFrameCount, hasAutoCaptured, animationStart,
             lastLandmarks, guideHighlighted>>
schedVars == <<scheduled, refPending, nGum, nPlay, pc>>
envVars == <<bundleReady, consoleError, isCameraOn, stream, meshOnCanvas,
             canvasSized, videoReady>>
obsVars == <<lastEvent, closeStreak, farStreak, closeSinceLock, missStreak,
            autoCaptureCalls, stopped>>
capVars == <<capCalls, artifact, captureCanvas, videoFrame>>
evalVars == <<evalIn, evalOut>>
routeVars == <<reqFile, reqFilename, routeStatus, written>>
vars == <<engVars, schedVars, envVars, obsVars, evalVars, capVars, routeVars>>

\* ------------------------------------------------------------------ bounds
MaxElapsed == 1     \* now - animationStart is kept up to MaxElapsed, then saturates
MaxStarts == 2      \* startCamera calls in flight at once
MaxPoints == 2      \* landmarks in a set given to the evaluator alone
MaxCaptures == 2    \* captureScreenshot calls in one run of the capture pipeline
MaxFrames == 1      \* video frames after the first in one run of the capture pipeline
MaxSegments == 3    \* segments between "/" in a filename posted to the route

\* --------------------------------------------------------------- constants
MAX_MISS_COUNT == 45
DISENGAGE_FRAME_LIMIT == 12
CLOSE_UNLOCK_FRAMES == 6
AUTO_CAPTURE_FRAMES == 60
minWidth == 34
minHeight == 44
nearWidth == 30
nearHeight == 36
centerToleranceX == 12
centerToleranceY == 12
targetCenterY == 50
targetCenterX == 50
NoTime == -1

\* ------------------------------------------------- JavaScript number values
Fin(n) == [k |-> "fin", v |-> n]
NaN == [k |-> "nan", v |-> 0]
PInf == [k |-> "pinf", v |-> 0]
NInf == [k |-> "ninf", v |-> 0]
Undef == [k |-> "undef", v |-> 0]

isFinite(a) == a.k = "fin"

\* Math.min: NaN if either argument is NaN, else the smaller of the two.
MathMin(a, b) ==
  IF a.k = "nan" \/ b.k = "nan" THEN NaN
  ELSE IF a.k = "ninf" \/ b.k = "ninf" THEN NInf
  ELSE IF a.k = "pinf" THEN b
  ELSE IF b.k = "pinf" THEN a
  ELSE IF a.v <= b.v THEN a ELSE b

MathMax(a, b) ==
  IF a.k = "nan" \/ b.k = "nan" THEN NaN
  ELSE IF a.k = "pinf" \/ b.k = "pinf" THEN PInf
  ELSE IF a.k = "ninf" THEN b
  ELSE IF b.k = "ninf" THEN a
  ELSE IF a.v >= b.v THEN a ELSE b

Abs(n) == IF n < 0 THEN -n ELSE n
Max0(n) == IF n < 0 THEN 0 ELSE n
Cap(n, max) == IF n > max THEN max ELSE n

\* ------------------------------------------------------- evaluateAlignment
\* The loop of lines 157-166: a point whose x or y is not of type number is
\* skipped, every other point (NaN and the infinities included) goes through
\* Math.min/Math.max.
RECURSIVE BoundsOf(_, _)
BoundsOf(landmarks, acc) ==
  IF landmarks = <<>> THEN acc
  ELSE LET point == Head(landmarks)
           next == IF point.x.k = "undef" \/ point.y.k = "undef" THEN acc
                   ELSE [minX |-> MathMin(acc.minX, point.x),
                         maxX |-> MathMax(acc.maxX, point.x),
                         minY |-> MathMin(acc.minY, point.y),
                         maxY |-> MathMax(acc.maxY, point.y)]
       IN BoundsOf(Tail(landmarks), next)

\* Mutant: the tolerance test made strict.
WithinToleranceStrict(lo, hi, target, tolerance) ==
  Abs((lo + hi) - 2 * target) < 2 * tolerance

\* Math.abs(center - target) <= tolerance, with center = (lo + hi) * 0.5,
\* stated on the doubled values so that it stays in the integers.
WithinTolerance(lo, hi, target, tolerance) ==
  Abs((lo + hi) - 2 * target) <= 2 * tolerance

\* Math.max(0, hi - lo) >= threshold (threshold > 0) in JavaScript arithmetic.
JsSpanAtLeast(lo, hi, threshold) ==
  IF lo.k = "nan" \/ hi.k = "nan" THEN FALSE
  ELSE IF hi.k = "pinf" THEN lo.k # "pinf"
  ELSE IF hi.k = "ninf" THEN FALSE
  ELSE IF lo.k = "ninf" THEN TRUE
  ELSE IF lo.k = "pinf" THEN FALSE
  ELSE Max0(hi.v - lo.v) >= threshold

\* Math.abs((lo + hi) * 0.5 - target) <= tolerance in JavaScript arithmetic.
JsCentred(lo, hi, target, tolerance) ==
  isFinite(lo) /\ isFinite(hi) /\ WithinTolerance(lo.v, hi.v, target, tolerance)

\* Mutant: the guard of line 168 is missing.
evaluateAlignmentNoGuard(landmarks) ==
  IF Len(landmarks) = 0 THEN [isAligned |-> FALSE, isClose |-> FALSE]
  ELSE
    LET b == BoundsOf(landmarks,
                      [minX |-> PInf, maxX |-> NInf, minY |-> PInf, maxY |-> NInf])
    IN [isClose |-> /\ JsSpanAtLeast(b.minX, b.maxX, nearWidth)
                    /\ JsSpanAtLeast(b.minY, b.maxY, nearHeight),
        isAligned |-> /\ JsSpanAtLeast(b.minX, b.maxX, minWidth)
                      /\ JsSpanAtLeast(b.minY, b.maxY, minHeight)
                      /\ JsCentred(b.minX, b.maxX, targetCenterX, centerToleranceX)
                      /\ JsCentred(b.minY, b.maxY, targetCenterY, centerToleranceY)]

\* Mutant: the close test asks for more than the aligned sizes.
evaluateAlignmentCloseAboveAligned(landmarks) ==
  IF Len(landmarks) = 0 THEN [isAligned |-> FALSE, isClose |-> FALSE]
  ELSE
    LET b == BoundsOf(landmarks,
                      [minX |-> PInf, maxX |-> NInf, minY |-> PInf, maxY |-> NInf])
    IN IF ~isFinite(b.minX) \/ ~isFinite(b.maxX) \/ ~isFinite(b.minY) \/ ~isFinite(b.maxY)
       THEN [isAligned |-> FALSE, isClose |-> FALSE]
       ELSE
         LET width == Max0(b.maxX.v - b.minX.v)
             height == Max0(b.maxY.v - b.minY.v)
         IN [isClose |-> width > minWidth /\ height > minHeight,
             isAligned |-> /\ width >= minWidth
                           /\ height >= minHeight
                           /\ WithinTolerance(b.minX.v, b.maxX.v, targetCenterX, centerToleranceX)
                           /\ WithinTolerance(b.minY.v, b.maxY.v, targetCenterY, centerToleranceY)]

evaluateAlignment(landmarks) ==
  IF Len(landmarks) = 0 THEN [isAligned |-> FALSE, isClose |-> FALSE]
  ELSE
    LET b == BoundsOf(landmarks,
                      [minX |-> PInf, maxX |-> NInf, minY |-> PInf, maxY |-> NInf])
    IN IF ~isFinite(b.minX) \/ ~isFinite(b.maxX) \/ ~isFinite(b.minY) \/ ~isFinite(b.maxY)
       THEN [isAligned |-> FALSE, isClose |-> FALSE]
       ELSE
         LET width == Max0(b.maxX.v - b.minX.v)
             height == Max0(b.maxY.v - b.minY.v)
         IN [isClose |-> width >= nearWidth /\ height >= nearHeight,
             isAligned |-> /\ width >= minWidth
                           /\ height >= minHeight
                           /\ WithinTolerance(b.minX.v, b.maxX.v, targetCenterX, centerToleranceX)
                           /\ WithinTolerance(b.minY.v, b.maxY.v, targetCenterY, centerToleranceY)]

\* The coordinates the evaluator is tried on: widths 3, 31, 34, 52.. and
\* heights 8, 36, 44, 54.. on both sides of every threshold, a centre exactly
\* at the tolerance (12 and 64: sum 76) and one beyond it (10 and 64: sum 74).
XValues == {Fin(10), Fin(12), Fin(33), Fin(64), Fin(67), NaN, PInf, NInf, Undef}
YValues == {Fin(10), Fin(28), Fin(64), Fin(72), NaN, PInf, NInf, Undef}
Points == [x : XValues, y : YValues]

RECURSIVE SeqsUpTo(_, _)
SeqsUpTo(S, n) ==
  IF n = 0 THEN {<<>>}
  ELSE LET shorter == SeqsUpTo(S, n - 1)
       IN shorter \cup {Append(s, p) : s \in shorter, p \in S}

\* Every landmark set of up to n points.
LandmarkSets(n) == SeqsUpTo(Points, n)

\* The faces the detector returns in the loop: too far, close but not
\* aligned, aligned, and an empty landmark array.
FaceFar == <<[x |-> Fin(33), y |-> Fin(28)], [x |-> Fin(64), y |-> Fin(28)]>>
FaceClose == <<[x |-> Fin(33), y |-> Fin(28)], [x |-> Fin(64), y |-> Fin(64)]>>
FaceAligned == <<[x |-> Fin(33), y |-> Fin(28)], [x |-> Fin(67), y |-> Fin(72)]>>
FaceEmpty == <<>>
FrameFaces == {FaceFar, FaceClose, FaceAligned, FaceEmpty}

\* Those faces with one more point, one of whose coordinates is not finite.
StrayPoints == {p \in Points : ~isFinite(p.x) \/ ~isFinite(p.y)}
FacesWithStrayPoint ==
  {Append(f, p) : f \in {FaceFar, FaceClose, FaceAligned}, p \in StrayPoints}

\* -------------------------------------------------------- engagement state
phase == IF hasAnimationStarted THEN "Locked" ELSE "Guide"

\* The refs the loop updates, as one record; capture is set when the frame
\* calls captureScreenshot(true).
Eng ==
  [hasAnimationStarted |-> hasAnimationStarted,
   closeFrameCount |-> closeFrameCount,
   disengageCount |-> disengageCount,
   missCount |-> missCount,
   autoCaptureFrameCount |-> autoCaptureFrameCount,
   hasAutoCaptured |-> hasAutoCaptured,
   animationStart |-> animationStart,
   lastLandmarks |-> lastLandmarks,
   guideHighlighted |-> guideHighlighted,
   capture |-> FALSE]

\* Mutant: the reversion also clears the one-shot latch.
revertToGuideClearsLatch(s) ==
  IF ~s.hasAnimationStarted THEN s
  ELSE [s EXCEPT !.hasAnimationStarted = FALSE,
                 !.animationStart = NoTime,
                 !.disengageCount = 0,
                 !.closeFrameCount = 0,
                 !.lastLandmarks = "null",
                 !.missCount = 0,
                 !.guideHighlighted = FALSE,
                 !.hasAutoCaptured = FALSE,
                 !.autoCaptureFrameCount = 0]

revertToGuide(s) ==
  IF ~s.hasAnimationStarted THEN s
  ELSE [s EXCEPT !.hasAnimationStarted = FALSE,
                 !.animationStart = NoTime,
                 !.disengageCount = 0,
                 !.closeFrameCount = 0,
                 !.lastLandmarks = "null",
                 !.missCount = 0,
                 !.guideHighlighted = FALSE]

\* Mutant: the unlock needs more than CLOSE_UNLOCK_FRAMES close frames.
OnGuideFaceLate(s, v, now) ==
  LET s1 == [s EXCEPT !.disengageCount = 0,
                      !.guideHighlighted = v.isClose,
                      !.closeFrameCount = IF v.isClose THEN @ + 1 ELSE 0]
  IN IF v.isAligned \/ s1.closeFrameCount > CLOSE_UNLOCK_FRAMES
     THEN [s1 EXCEPT !.hasAnimationStarted = TRUE,
                     !.guideHighlighted = FALSE,
                     !.animationStart = now,
                     !.disengageCount = 0,
                     !.closeFrameCount = 0]
     ELSE s1

\* Mutant: a face that is not close leaves the count of close frames alone.
OnGuideFaceKeepsCount(s, v, now) ==
  LET s1 == [s EXCEPT !.disengageCount = 0,
                      !.guideHighlighted = v.isClose,
                      !.closeFrameCount = IF v.isClose THEN @ + 1 ELSE @]
  IN IF v.isAligned \/ s1.closeFrameCount >= CLOSE_UNLOCK_FRAMES
     THEN [s1 EXCEPT !.hasAnimationStarted = TRUE,
                     !.guideHighlighted = FALSE,
                     !.animationStart = now,
                     !.disengageCount = 0,
                     !.closeFrameCount = 0]
     ELSE s1

\* Mutant: an aligned face unlocks only after two close frames.
OnGuideFaceAlignedWaits(s, v, now) ==
  LET s1 == [s EXCEPT !.disengageCount = 0,
                      !.guideHighlighted = v.isClose,
                      !.closeFrameCount = IF v.isClose THEN @ + 1 ELSE 0]
  IN IF (v.isAligned /\ s1.closeFrameCount >= 2) \/ s1.closeFrameCount >= CLOSE_UNLOCK_FRAMES
     THEN [s1 EXCEPT !.hasAnimationStarted = TRUE,
                     !.guideHighlighted = FALSE,
                     !.animationStart = now,
                     !.disengageCount = 0,
                     !.closeFrameCount = 0]
     ELSE s1

\* Mutant: unlocking leaves the count of close frames as it is.
OnGuideFaceLeavesCount(s, v, now) ==
  LET s1 == [s EXCEPT !.disengageCount = 0,
                      !.guideHighlighted = v.isClose,
                      !.closeFrameCount = IF v.isClose THEN @ + 1 ELSE 0]
  IN IF v.isAligned \/ s1.closeFrameCount >= CLOSE_UNLOCK_FRAMES
     THEN [s1 EXCEPT !.hasAnimationStarted = TRUE,
                     !.guideHighlighted = FALSE,
                     !.animationStart = now,
                     !.disengageCount = 0]
     ELSE s1

\* Mutant: unlocking leaves the animation clock at its earlier start.
OnGuideFaceKeepsClock(s, v, now) ==
  LET s1 == [s EXCEPT !.disengageCount = 0,
                      !.guideHighlighted = v.isClose,
                      !.closeFrameCount = IF v.isClose THEN @ + 1 ELSE 0]
  IN IF v.isAligned \/ s1.closeFrameCount >= CLOSE_UNLOCK_FRAMES
     THEN [s1 EXCEPT !.hasAnimationStarted = TRUE,
                     !.guideHighlighted = FALSE,
                     !.disengageCount = 0,
                     !.closeFrameCount = 0]
     ELSE s1

\* Lines 436-464: a face while the mesh is not unlocked.
OnGuideFace(s, v, now) ==
  LET s1 == [s EXCEPT !.disengageCount = 0,
                      !.guideHighlighted = v.isClose,
                      !.closeFrameCount = IF v.isClose THEN @ + 1 ELSE 0]
  IN IF v.isAligned \/ s1.closeFrameCount >= CLOSE_UNLOCK_FRAMES
     THEN [s1 EXCEPT !.hasAnimationStarted = TRUE,
                     !.guideHighlighted = FALSE,
                     !.animationStart = now,
                     !.disengageCount = 0,
                     !.closeFrameCount = 0]
     ELSE s1

\* Mutant: the reversion comes when the limit is reached, not when it is passed.
OnLockedFaceEarly(s, v) ==
  IF v.isClose
  THEN LET s1 == [s EXCEPT !.disengageCount = 0, !.closeFrameCount = 0]
       IN IF ~s1.hasAutoCaptured
          THEN LET s2 == [s1 EXCEPT !.autoCaptureFrameCount = @ + 1]
               IN IF s2.autoCaptureFrameCount >= AUTO_CAPTURE_FRAMES
                  THEN [s2 EXCEPT !.hasAutoCaptured = TRUE, !.capture = TRUE]
                  ELSE s2
          ELSE s1
  ELSE LET s1 == [s EXCEPT !.disengageCount = @ + 1, !.autoCaptureFrameCount = 0]
       IN IF s1.disengageCount >= DISENGAGE_FRAME_LIMIT THEN revertToGuide(s1) ELSE s1

\* Lines 466-489: a face while the mesh is unlocked.
OnLockedFace(s, v) ==
  IF v.isClose
  THEN LET s1 == [s EXCEPT !.disengageCount = 0, !.closeFrameCount = 0]
       IN IF ~s1.hasAutoCaptured
          THEN LET s2 == [s1 EXCEPT !.autoCaptureFrameCount = @ + 1]
               IN IF s2.autoCaptureFrameCount >= AUTO_CAPTURE_FRAMES
                  THEN [s2 EXCEPT !.hasAutoCaptured = TRUE, !.capture = TRUE]
                  ELSE s2
          ELSE s1
  ELSE LET s1 == [s EXCEPT !.disengageCount = @ + 1, !.autoCaptureFrameCount = 0]
       IN IF s1.disengageCount > DISENGAGE_FRAME_LIMIT THEN revertToGuide(s1) ELSE s1

\* Mutant: a detected face does not reset the count of missed frames.
OnFacesKeepsMissCount(s, v, now) ==
  LET s1 == [s EXCEPT !.lastLandmarks = "faces"]
  IN IF ~s1.hasAnimationStarted THEN OnGuideFace(s1, v, now) ELSE OnLockedFace(s1, v)

\* Lines 428-490: the detector returned a face.
OnFaces(s, v, now) ==
  LET s1 == [s EXCEPT !.lastLandmarks = "faces", !.missCount = 0]
  IN IF ~s1.hasAnimationStarted THEN OnGuideFace(s1, v, now) ELSE OnLockedFace(s1, v)

\* Mutant: the kept landmarks are dropped when the limit is reached.
OnNoFacesDropsEarly(s) ==
  IF s.lastLandmarks # "null"
  THEN LET s1 == [s EXCEPT !.missCount = @ + 1]
           s2 == IF s1.hasAnimationStarted
                 THEN LET s3 == [s1 EXCEPT !.disengageCount = @ + 1]
                      IN IF s3.disengageCount > DISENGAGE_FRAME_LIMIT
                         THEN revertToGuide(s3) ELSE s3
                 ELSE s1
       IN IF s2.missCount >= MAX_MISS_COUNT THEN [s2 EXCEPT !.lastLandmarks = "null"] ELSE s2
  ELSE IF ~s.hasAnimationStarted /\ s.guideHighlighted
       THEN [s EXCEPT !.guideHighlighted = FALSE, !.closeFrameCount = 0]
       ELSE s

\* Lines 497-513: the detector returned no face.
OnNoFaces(s) ==
  IF s.lastLandmarks # "null"
  THEN LET s1 == [s EXCEPT !.missCount = @ + 1]
           s2 == IF s1.hasAnimationStarted
                 THEN LET s3 == [s1 EXCEPT !.disengageCount = @ + 1]
                      IN IF s3.disengageCount > DISENGAGE_FRAME_LIMIT
                         THEN revertToGuide(s3) ELSE s3
                 ELSE s1
       IN IF s2.missCount > MAX_MISS_COUNT THEN [s2 EXCEPT !.lastLandmarks = "null"] ELSE s2
  ELSE IF ~s.hasAnimationStarted /\ s.guideHighlighted
       THEN [s EXCEPT !.guideHighlighted = FALSE, !.closeFrameCount = 0]
       ELSE s

\* Line 398: performance.now() is read, later than at its last reading; a
\* stored start time lies one step further back.
Advance(s) ==
  IF s.animationStart = NoTime THEN s
  ELSE [s EXCEPT !.animationStart = Cap(@ + 1, MaxElapsed)]

\* Lines 398-401: the animation clock is started on any frame that finds it
\* unset, before the detector is asked (now is 0 back from itself).
StartClock(s, now) ==
  IF s.animationStart = NoTime THEN [s EXCEPT !.animationStart = now] ELSE s

\* The verdicts evaluateAlignment gives for the faces of the loop.
FaceVerdicts == [f \in FrameFaces |-> evaluateAlignment(f)]

\* Lines 398-513 for one frame: kind is what detectForVideo did ("throw",
\* "none": no face, "face": the landmarks in face).
ProcessFrame(s, kind, face) ==
  LET s1 == StartClock(Advance(s), 0)
  IN CASE kind = "throw" -> s1
       [] kind = "none" -> OnNoFaces(s1)
       [] kind = "face" -> OnFaces(s1, FaceVerdicts[face], 0)

\* Lines 515-564: the canvas is cleared and the mesh is drawn when landmarks
\* are kept and the mesh is unlocked.
MeshDrawn(s) == s.lastLandmarks # "null" /\ s.hasAnimationStarted

\* ---------------------------------------------------------------- observers
NoVerdict == [isAligned |-> FALSE, isClose |-> FALSE]

\* kind: "reset" (start, stop, construction), "none" (a frame without a face)
\* or "face" (a frame with one, v its verdict); s0 is the state before the step.
Event(kind, v, s0, capture) ==
  [kind |-> kind, isClose |-> v.isClose, isAligned |-> v.isAligned,
   capture |-> capture,
   wasLocked |-> s0.hasAnimationStarted,
   prevClose |-> s0.closeFrameCount]

\* A step that resets the engagement state ends every run of frames.  Steps
\* that feed the state machine nothing (an iteration that is skipped or whose
\* detection throws, a camera request in flight) leave the observers alone.
ResetEvent ==
  [kind |-> "reset", isClose |-> FALSE, isAligned |-> FALSE, capture |-> FALSE,
   wasLocked |-> FALSE, prevClose |-> 0]

ObserveReset ==
  /\ lastEvent' = ResetEvent
  /\ closeStreak' = 0
  /\ farStreak' = -1
  /\ closeSinceLock' = -1
  /\ missStreak' = -1

\* A processed frame: s0 before it, s1 after it, v the verdict of its face.
ObserveFrame(kind, v, s0, s1) ==
  LET closeOnly == kind = "face" /\ v.isClose /\ ~v.isAligned
      closeFace == kind = "face" /\ v.isClose
      notClose == kind = "none" \/ (kind = "face" /\ ~v.isClose)
      nowLocked == ~s0.hasAnimationStarted /\ s1.hasAnimationStarted
  IN /\ lastEvent' = Event(kind, v, s0, s1.capture)
     /\ closeStreak' =
          IF ~closeOnly THEN 0
          ELSE IF closeStreak > 0 THEN Cap(closeStreak + 1, CLOSE_UNLOCK_FRAMES + 1)
          ELSE IF ~s0.hasAnimationStarted /\ s0.closeFrameCount = 0 THEN 1
          ELSE 0
     /\ farStreak' =
          IF nowLocked \/ (s0.hasAnimationStarted /\ closeFace) THEN 0
          ELSE IF notClose /\ farStreak >= 0 /\ farStreak <= DISENGAGE_FRAME_LIMIT
               THEN farStreak + 1
          ELSE -1
     /\ closeSinceLock' =
          IF nowLocked THEN (IF s1.hasAutoCaptured THEN -1 ELSE 0)
          ELSE IF s0.hasAnimationStarted /\ closeFace /\ closeSinceLock >= 0
               THEN Cap(closeSinceLock + 1, AUTO_CAPTURE_FRAMES + 1)
          ELSE -1
     /\ missStreak' =
          IF s0.hasAnimationStarted /\ ~s1.hasAnimationStarted THEN -1
          ELSE IF kind = "face" THEN 0
          ELSE IF missStreak >= 0 THEN Cap(missStreak + 1, MAX_MISS_COUNT + 2)
          ELSE -1

SetEng(s) ==
  /\ hasAnimationStarted' = s.hasAnimationStarted
  /\ closeFrameCount' = s.closeFrameCount
  /\ disengageCount' = s.disengageCount
  /\ missCount' = s.missCount
  /\ autoCaptureFrameCount' = s.autoCaptureFrameCount
  /\ hasAutoCaptured' = s.hasAutoCaptured
  /\ animationStart' = s.animationStart
  /\ lastLandmarks' = s.lastLandmarks
  /\ guideHighlighted' = s.guideHighlighted

\* ------------------------------------------------------------- renderLoop
\* Lines 410-426: console.error is saved and replaced by an empty function,
\* detectForVideo is called, and the saved function is put back by the
\* statement after the call; the catch puts nothing back.
PageHandler == "page"
EmptyHandler == "empty"
SuppressedDetect(handler, throws) ==
  LET originalConsoleError == handler
  IN IF throws THEN EmptyHandler ELSE originalConsoleError

\* Lines 385-426 when detectForVideo throws: the canvas has taken the video's
\* size, the animation clock is started, and the catch reschedules and returns.
FrameThrows ==
  /\ SetEng(ProcessFrame(Eng, "throw", <<>>))
  /\ consoleError' = SuppressedDetect(consoleError, TRUE)
  /\ canvasSized' = TRUE
  /\ meshOnCanvas' = (canvasSized /\ meshOnCanvas)
  /\ UNCHANGED obsVars

\* One call of renderLoop; sched0 and ref0 are the pending callbacks and the
\* state of requestIdRef when the call begins.
\* Mutant: an iteration that finds the video not ready starts the animation clock.
FrameNotReadyStartsClock ==
  /\ SetEng(StartClock(Eng, 0))
  /\ UNCHANGED <<meshOnCanvas, canvasSized, obsVars, consoleError>>

\* Lines 364-383: the bundle, the video or the canvas is missing, or the
\* video has no current frame; the iteration only reschedules.
FrameNotReady ==
  UNCHANGED <<engVars, meshOnCanvas, canvasSized, obsVars, consoleError>>

renderLoop(sched0, ref0) ==
  IF ~isCameraOn
  THEN \* lines 359-362
       /\ scheduled' = sched0
       /\ refPending' = ref0
       /\ UNCHANGED <<engVars, envVars, obsVars>>
  ELSE
    /\ scheduled' = sched0 + 1
    /\ refPending' = TRUE
    /\ UNCHANGED <<bundleReady, isCameraOn, stream, videoReady>>
    /\ \/ \* lines 364-383
          /\ ~videoReady
          /\ FrameNotReady
       \/ \* lines 385-396: the canvas takes the video's size; no 2d context
          /\ videoReady
          /\ canvasSized' = TRUE
          /\ meshOnCanvas' = (canvasSized /\ meshOnCanvas)
          /\ UNCHANGED <<engVars, obsVars, consoleError>>
       \/ \* lines 398-426: detectForVideo throws
          /\ videoReady
          /\ FrameThrows
       \/ \* lines 398-572: a detection result, drawn
          /\ videoReady
          /\ \E kind \in {"none", "face"} :
               \E face \in (IF kind = "face" THEN FrameFaces ELSE {<<>>}) :
                 LET s1 == ProcessFrame(Eng, kind, face)
                     v == IF kind = "face" THEN FaceVerdicts[face] ELSE NoVerdict
                 IN /\ SetEng(s1)
                    /\ ObserveFrame(kind, v, Eng, s1)
                    /\ consoleError' = SuppressedDetect(consoleError, FALSE)
                    /\ canvasSized' = TRUE
                    /\ meshOnCanvas' = MeshDrawn(s1)
                    /\ autoCaptureCalls' = IF s1.capture THEN Cap(autoCaptureCalls + 1, 2)
                                           ELSE autoCaptureCalls
                    /\ UNCHANGED stopped

\* -------------------------------------------------- the capture pipeline
NoArtifact == [held |-> FALSE, blob |-> 0, dataUrl |-> 0]
NotCalled == [stage |-> "idle", autoUpload |-> FALSE, blob |-> 0,
              save |-> "none", upload |-> "none", result |-> "none"]

\* Lines 241, 251-252: no capture canvas, no captured blob or image.
CaptureIdle ==
  /\ capCalls = [c \in 1..MaxCaptures |-> NotCalled]
  /\ artifact = NoArtifact
  /\ captureCanvas = 0
  /\ videoFrame = 1

\* ------------------------------------------------- POST /api/save-image
\* Paths are sequences of segments below the root.  The segments a posted
\* filename is made of: a name, a directory name, "..", "." and the empty
\* segment of a doubled or leading "/".
Segments == {"x.png", "sub", "..", ".", ""}
Filenames(n) == SeqsUpTo(Segments, n)

\* path.normalize on an absolute path: empty and "." segments are dropped
\* and ".." removes the segment before it, if there is one.
RECURSIVE Normalize(_, _)
Normalize(done, segs) ==
  IF segs = <<>> THEN done
  ELSE LET seg == Head(segs)
           next == IF seg \in {"", "."} THEN done
                   ELSE IF seg = ".."
                        THEN (IF done = <<>> THEN done
                              ELSE SubSeq(done, 1, Len(done) - 1))
                        ELSE Append(done, seg)
       IN Normalize(next, Tail(segs))

\* path.join: the arguments are joined with "/" and the result is normalized.
PathJoin(a, b) == Normalize(<<>>, a \o b)

\* Line 30, with process.cwd() = /app.
Cwd == <<"app">>
PublicDir == PathJoin(Cwd, <<"public", "captured-images">>)

\* After the mkdir of line 34 the directories that exist are publicDir and
\* the directories above it.
IsDirectory(path) == \E n \in 0..Len(PublicDir) : path = SubSeq(PublicDir, 1, n)

\* fs.writeFile (line 37) throws when the path names a directory or lies in
\* a directory that does not exist, and writes the file otherwise.
WriteFileThrows(path) ==
  \/ IsDirectory(path)
  \/ ~IsDirectory(SubSeq(path, 1, Len(path) - 1))

NothingWritten == [done |-> FALSE, path |-> <<>>]

\* No request has been received.
RouteIdle ==
  /\ reqFile = FALSE
  /\ reqFilename = <<>>
  /\ routeStatus = 0
  /\ written = NothingWritten

\* ------------------------------------------------------ start and stop
\* Lines 333-343: what stopCamera leaves in the refs.
StoppedEng ==
  [Eng EXCEPT !.missCount = 0,
              !.lastLandmarks = "null",
              !.animationStart = NoTime,
              !.disengageCount = 0,
              !.closeFrameCount = 0,
              !.hasAnimationStarted = FALSE,
              !.guideHighlighted = FALSE,
              !.hasAutoCaptured = FALSE,
              !.autoCaptureFrameCount = 0]

\* Mutant: startCamera leaves the latch and its counter as they are.
StartedEngKeepsLatch ==
  [Eng EXCEPT !.lastLandmarks = "null",
              !.missCount = 0,
              !.hasAnimationStarted = FALSE,
              !.guideHighlighted = FALSE,
              !.disengageCount = 0,
              !.closeFrameCount = 0,
              !.animationStart = NoTime]

\* Lines 598-607: what startCamera puts in the refs before it calls renderLoop.
StartedEng ==
  [Eng EXCEPT !.lastLandmarks = "null",
              !.missCount = 0,
              !.hasAnimationStarted = FALSE,
              !.guideHighlighted = FALSE,
              !.hasAutoCaptured = FALSE,
              !.autoCaptureFrameCount = 0,
              !.disengageCount = 0,
              !.closeFrameCount = 0,
              !.animationStart = NoTime]

\* stopCamera, lines 298-356.  The canvas is not touched.
stopCamera ==
  IF ~isCameraOn /\ ~stream
  THEN UNCHANGED <<engVars, scheduled, refPending, pc, envVars, obsVars, capVars>>
  ELSE /\ isCameraOn' = FALSE
       /\ scheduled' = IF refPending THEN scheduled - 1 ELSE scheduled
       /\ refPending' = FALSE
       /\ stream' = FALSE
       /\ videoReady' = FALSE
       /\ SetEng(StoppedEng)
       /\ ObserveReset
       /\ autoCaptureCalls' = 0
       /\ stopped' = (stopped \/ isCameraOn)
       /\ artifact' = NoArtifact
       /\ UNCHANGED <<pc, bundleReady, consoleError, meshOnCanvas, canvasSized, capCalls,
                      captureCanvas, videoFrame>>

\* The effect of lines 836-866: the landmarker is loaded.
Setup ==
  /\ pc = "idle"
  /\ ~bundleReady
  /\ bundleReady' = TRUE
  /\ UNCHANGED <<engVars, schedVars, consoleError, isCameraOn, stream, meshOnCanvas,
                 canvasSized, videoReady, obsVars, evalVars, routeVars, capVars>>

\* toggleCamera with the camera off: startCamera up to its first await
\* (lines 575-586).
StartCall ==
  /\ pc = "idle"
  /\ bundleReady
  /\ ~isCameraOn
  /\ nGum + nPlay + scheduled < MaxStarts
  /\ nGum' = nGum + 1
  /\ stopped' = FALSE
  /\ UNCHANGED <<engVars, scheduled, refPending, nPlay, pc, envVars, lastEvent,
                 closeStreak, farStreak, closeSinceLock, missStreak,
                 autoCaptureCalls, evalVars, routeVars, capVars>>

\* getUserMedia resolves: lines 588-596.  The new stream may have another
\* size than the canvas has.
StartGumOk ==
  /\ pc = "idle"
  /\ nGum > 0
  /\ nGum' = nGum - 1
  /\ nPlay' = nPlay + 1
  /\ stream' = TRUE
  /\ videoReady' = FALSE
  /\ \E same \in BOOLEAN : canvasSized' = (canvasSized /\ same)
  /\ UNCHANGED <<engVars, scheduled, refPending, pc, bundleReady, consoleError, isCameraOn,
                 meshOnCanvas, obsVars, evalVars, routeVars, capVars>>

\* getUserMedia rejects: the catch of lines 614-618 calls stopCamera.
StartGumFail ==
  /\ pc = "idle"
  /\ nGum > 0
  /\ nGum' = nGum - 1
  /\ stopCamera
  /\ UNCHANGED <<nPlay, evalVars, routeVars>>

\* video.play() resolves: lines 598-612, up to the call of renderLoop.
StartPlayOk ==
  /\ pc = "idle"
  /\ nPlay > 0
  /\ nPlay' = nPlay - 1
  /\ isCameraOn' = TRUE
  /\ SetEng(StartedEng)
  /\ pc' = "startLoop"
  /\ ObserveReset
  /\ autoCaptureCalls' = 0
  /\ stopped' = FALSE
  /\ UNCHANGED <<scheduled, refPending, nGum, bundleReady, consoleError, stream,
                 meshOnCanvas, canvasSized, videoReady, evalVars, routeVars, capVars>>

\* Line 613: startCamera calls renderLoop itself.
StartFirstLoop ==
  /\ pc = "startLoop"
  /\ pc' = "idle"
  /\ renderLoop(scheduled, refPending)
  /\ UNCHANGED <<nGum, nPlay, evalVars, routeVars, capVars>>

\* video.play() rejects: the catch of lines 614-618 calls stopCamera.
StartPlayFail ==
  /\ pc = "idle"
  /\ nPlay > 0
  /\ nPlay' = nPlay - 1
  /\ stopCamera
  /\ UNCHANGED <<nGum, evalVars, routeVars>>

\* The video element has a frame of the stream given to it at line 595.
VideoLoads ==
  /\ pc = "idle"
  /\ stream
  /\ ~videoReady
  /\ videoReady' = TRUE
  /\ UNCHANGED <<engVars, schedVars, bundleReady, consoleError, isCameraOn, stream, meshOnCanvas,
                 canvasSized, obsVars, evalVars, routeVars, capVars>>

\* toggleCamera with the camera on (lines 621-624).
StopCall ==
  /\ pc = "idle"
  /\ isCameraOn
  /\ stopCamera
  /\ UNCHANGED <<nGum, nPlay, evalVars, routeVars>>

\* The browser runs the oldest pending animation-frame callback
\* (lines 371-373, 379-381, 392-394, 422-424, 567-569).
RafFire ==
  /\ pc = "idle"
  /\ scheduled > 0
  /\ renderLoop(scheduled - 1, refPending /\ scheduled > 1)
  /\ UNCHANGED <<nGum, nPlay, pc, evalVars, routeVars, capVars>>

NotEvaluated == [done |-> FALSE, isAligned |-> FALSE, isClose |-> FALSE]

\* Lines 249-259: the refs as useRef creates them.
SetEngInit ==
  /\ hasAnimationStarted = FALSE
  /\ closeFrameCount = 0
  /\ disengageCount = 0
  /\ missCount = 0
  /\ autoCaptureFrameCount = 0
  /\ hasAutoCaptured = FALSE
  /\ animationStart = NoTime
  /\ lastLandmarks = "null"
  /\ guideHighlighted = FALSE

Init ==
  /\ bundleReady = FALSE
  /\ consoleError = PageHandler
  /\ isCameraOn = FALSE
  /\ stream = FALSE
  /\ SetEngInit
  /\ scheduled = 0
  /\ refPending = FALSE
  /\ nGum = 0
  /\ nPlay = 0
  /\ pc = "idle"
  /\ meshOnCanvas = FALSE
  /\ canvasSized = FALSE
  /\ videoReady = FALSE
  /\ lastEvent = ResetEvent
  /\ closeStreak = 0
  /\ farStreak = -1
  /\ closeSinceLock = -1
  /\ missStreak = -1
  /\ autoCaptureCalls = 0
  /\ stopped = FALSE
  /\ CaptureIdle
  /\ RouteIdle
  /\ evalIn = <<>>
  /\ evalOut = NotEvaluated

\* ------------------------------------------- the evaluator on its own
\* evaluateAlignment applied to every landmark set of up to MaxPoints points.
EvalInit ==
  /\ bundleReady = FALSE
  /\ consoleError = PageHandler
  /\ isCameraOn = FALSE
  /\ stream = FALSE
  /\ SetEngInit
  /\ scheduled = 0
  /\ refPending = FALSE
  /\ nGum = 0
  /\ nPlay = 0
  /\ pc = "idle"
  /\ meshOnCanvas = FALSE
  /\ canvasSized = FALSE
  /\ videoReady = FALSE
  /\ lastEvent = ResetEvent
  /\ closeStreak = 0
  /\ farStreak = -1
  /\ closeSinceLock = -1
  /\ missStreak = -1
  /\ autoCaptureCalls = 0
  /\ stopped = FALSE
  /\ CaptureIdle
  /\ RouteIdle
  /\ evalIn \in LandmarkSets(MaxPoints) \cup FacesWithStrayPoint
  /\ evalOut = NotEvaluated

Evaluate ==
  /\ ~evalOut.done
  /\ evalOut' = [done |-> TRUE,
                 isAligned |-> evaluateAlignment(evalIn).isAligned,
                 isClose |-> evaluateAlignment(evalIn).isClose]
  /\ UNCHANGED <<engVars, schedVars, envVars, obsVars, evalIn, capVars, routeVars>>

EvalNext == Evaluate

EvalSpec == EvalInit /\ [][EvalNext]_vars

\* --------------------------------------- the capture pipeline on its own
\* uploadToBackend, lines 629-659: the result is returned when the response
\* is ok; every other outcome is reported and thrown again.
uploadToBackend(outcome) == IF outcome = "ok" THEN "returned" ELSE "thrown"

\* Mutant: the auto-upload is awaited outside any try block.
AutoUploadUncaught(upload) == IF upload = "thrown" THEN "rejected" ELSE "resolved"

\* Lines 756-763: the auto-upload is awaited inside its own try/catch.
AutoUpload(upload) == "resolved"

\* captureScreenshot up to its await, lines 661-697.  ready: the video has a
\* size and the capture canvas gives a 2d context.
captureScreenshot(c, autoUpload, ready) ==
  /\ capCalls[c].stage = "idle"
  /\ c > 1 => capCalls[c - 1].stage # "idle"
  /\ IF ~isCameraOn \/ ~ready
     THEN /\ capCalls' = [capCalls EXCEPT ![c].stage = "done",
                                          ![c].autoUpload = autoUpload,
                                          ![c].result = "resolved"]
          /\ UNCHANGED captureCanvas
     ELSE /\ captureCanvas' = videoFrame
          /\ capCalls' = [capCalls EXCEPT ![c].stage = "blob",
                                          ![c].autoUpload = autoUpload,
                                          ![c].blob = videoFrame]

\* Line 930: the capture button calls captureScreenshot(false).
CaptureClick(c, ready) ==
  /\ captureScreenshot(c, FALSE, ready)
  /\ UNCHANGED <<engVars, schedVars, envVars, obsVars, evalVars, routeVars, artifact, videoFrame>>

\* The iteration of renderLoop that reaches line 479: the latch is set and
\* captureScreenshot(true) runs up to its await inside the same iteration.
AutoCaptureFrame(c, ready) ==
  /\ pc = "idle"
  /\ scheduled > 0
  /\ renderLoop(scheduled - 1, refPending /\ scheduled > 1)
  /\ autoCaptureCalls' # autoCaptureCalls
  /\ captureScreenshot(c, TRUE, ready)
  /\ UNCHANGED <<nGum, nPlay, pc, evalVars, routeVars, artifact, videoFrame>>

\* toBlob gives the PNG: lines 699-755, and line 759 up to the await in
\* uploadToBackend for an automatic capture.
ToBlobOk(c) ==
  /\ capCalls[c].stage = "blob"
  /\ artifact' = [held |-> TRUE, blob |-> capCalls[c].blob, dataUrl |-> captureCanvas]
  /\ capCalls' = [capCalls EXCEPT
                    ![c].save = "pending",
                    ![c].stage = IF capCalls[c].autoUpload THEN "upload" ELSE "done",
                    ![c].upload = IF capCalls[c].autoUpload THEN "pending" ELSE "none",
                    ![c].result = IF capCalls[c].autoUpload THEN "none" ELSE "resolved"]
  /\ UNCHANGED <<engVars, schedVars, envVars, obsVars, evalVars, routeVars, captureCanvas, videoFrame>>

\* Mutant: a capture that fails to rasterize re-arms the automatic trigger.
ToBlobFailRollsBackLatch(c) ==
  /\ capCalls[c].stage = "blob"
  /\ capCalls' = [capCalls EXCEPT ![c].stage = "done", ![c].result = "resolved"]
  /\ hasAutoCaptured' = (hasAutoCaptured /\ ~capCalls[c].autoUpload)
  /\ autoCaptureFrameCount' = IF capCalls[c].autoUpload THEN 0 ELSE autoCaptureFrameCount
  /\ UNCHANGED <<hasAnimationStarted, closeFrameCount, disengageCount, missCount,
                 animationStart, lastLandmarks, guideHighlighted>>
  /\ UNCHANGED <<schedVars, envVars, obsVars, evalVars, routeVars, artifact,
                 captureCanvas, videoFrame>>

\* toBlob gives null: the rejection of line 694 is caught at line 764.
ToBlobFail(c) ==
  /\ capCalls[c].stage = "blob"
  /\ capCalls' = [capCalls EXCEPT ![c].stage = "done", ![c].result = "resolved"]
  /\ UNCHANGED <<engVars, schedVars, envVars, obsVars, evalVars, routeVars, artifact,
                 captureCanvas, videoFrame>>

\* saveToFileSystem, lines 721-744: the response is ok, is not ok, or the
\* request throws; each outcome only sets the status text.
SaveSettles(c, outcome) ==
  /\ capCalls[c].save = "pending"
  /\ capCalls' = [capCalls EXCEPT ![c].save = outcome]
  /\ UNCHANGED <<engVars, schedVars, envVars, obsVars, evalVars, routeVars, artifact,
                 captureCanvas, videoFrame>>

\* Mutant: a failed upload discards the captured artifact.
UploadSettlesRollsBack(c, outcome) ==
  /\ capCalls[c].stage = "upload"
  /\ capCalls' = [capCalls EXCEPT ![c].upload = outcome,
                                  ![c].stage = "done",
                                  ![c].result = AutoUpload(uploadToBackend(outcome))]
  /\ artifact' = IF outcome = "ok" THEN artifact ELSE NoArtifact
  /\ UNCHANGED <<engVars, schedVars, envVars, obsVars, evalVars, routeVars,
                 captureCanvas, videoFrame>>

\* The auto-upload settles: lines 756-763.
UploadSettles(c, outcome) ==
  /\ capCalls[c].stage = "upload"
  /\ capCalls' = [capCalls EXCEPT ![c].upload = outcome,
                                  ![c].stage = "done",
                                  ![c].result = AutoUpload(uploadToBackend(outcome))]
  /\ UNCHANGED <<engVars, schedVars, envVars, obsVars, evalVars, routeVars, artifact,
                 captureCanvas, videoFrame>>

\* The camera delivers its next frame.
VideoAdvance ==
  /\ isCameraOn
  /\ videoFrame <= MaxFrames
  /\ videoFrame' = videoFrame + 1
  /\ UNCHANGED <<engVars, schedVars, envVars, obsVars, evalVars, routeVars, capCalls,
                 artifact, captureCanvas>>

\* The camera is on, the mesh is unlocked and 59 close frames have been
\* counted since: the state one close frame before line 479 is reached.
CaptureInit ==
  /\ bundleReady = TRUE
  /\ consoleError = PageHandler
  /\ isCameraOn = TRUE
  /\ stream = TRUE
  /\ hasAnimationStarted = TRUE
  /\ closeFrameCount = 0
  /\ disengageCount = 0
  /\ missCount = 0
  /\ autoCaptureFrameCount = AUTO_CAPTURE_FRAMES - 1
  /\ hasAutoCaptured = FALSE
  /\ animationStart = MaxElapsed
  /\ lastLandmarks = "faces"
  /\ guideHighlighted = FALSE
  /\ scheduled = 1
  /\ refPending = TRUE
  /\ nGum = 1
  /\ nPlay = 0
  /\ pc = "idle"
  /\ meshOnCanvas = TRUE
  /\ canvasSized = TRUE
  /\ videoReady = TRUE
  /\ lastEvent = [kind |-> "face", isClose |-> TRUE, isAligned |-> FALSE,
                  capture |-> FALSE, wasLocked |-> TRUE, prevClose |-> 0]
  /\ closeStreak = 0
  /\ farStreak = 0
  /\ closeSinceLock = AUTO_CAPTURE_FRAMES - 1
  /\ missStreak = 0
  /\ autoCaptureCalls = 0
  /\ stopped = FALSE
  /\ CaptureIdle
  /\ RouteIdle
  /\ evalIn = <<>>
  /\ evalOut = NotEvaluated

CaptureNext ==
  \/ \E c \in 1..MaxCaptures, ready \in BOOLEAN : CaptureClick(c, ready)
  \/ \E c \in 1..MaxCaptures, ready \in BOOLEAN : AutoCaptureFrame(c, ready)
  \/ \E c \in 1..MaxCaptures : ToBlobOk(c)
  \/ \E c \in 1..MaxCaptures : ToBlobFail(c)
  \/ \E c \in 1..MaxCaptures, outcome \in {"ok", "notOk", "threw"} :
       SaveSettles(c, outcome)
  \/ \E c \in 1..MaxCaptures, outcome \in {"ok", "status", "network"} :
       UploadSettles(c, outcome)
  \/ VideoAdvance
  \/ StopCall

CaptureSpec == CaptureInit /\ [][CaptureNext]_vars

\* ------------------------------------------------ the route on its own
\* POST, lines 5-55 of the route: a form without an image or with no
\* filename (or an empty one) is answered 400; otherwise the bytes are
\* written at path.join(publicDir, filename), and a throw is answered 500.
POST ==
  /\ routeStatus = 0
  /\ IF ~reqFile \/ reqFilename = <<>> \/ reqFilename = <<"">>
     THEN /\ routeStatus' = 400
          /\ UNCHANGED written
     ELSE LET filePath == PathJoin(PublicDir, reqFilename)
          IN IF WriteFileThrows(filePath)
             THEN /\ routeStatus' = 500
                  /\ UNCHANGED written
             ELSE /\ routeStatus' = 200
                  /\ written' = [done |-> TRUE, path |-> filePath]
  /\ UNCHANGED <<engVars, schedVars, envVars, obsVars, evalVars, capVars,
                 reqFile, reqFilename>>

\* A request arrives with any form: with or without an image, and with a
\* filename of up to MaxSegments segments.
RouteInit ==
  /\ bundleReady = FALSE
  /\ consoleError = PageHandler
  /\ isCameraOn = FALSE
  /\ stream = FALSE
  /\ SetEngInit
  /\ scheduled = 0
  /\ refPending = FALSE
  /\ nGum = 0
  /\ nPlay = 0
  /\ pc = "idle"
  /\ meshOnCanvas = FALSE
  /\ canvasSized = FALSE
  /\ videoReady = FALSE
  /\ lastEvent = ResetEvent
  /\ closeStreak = 0
  /\ farStreak = -1
  /\ closeSinceLock = -1
  /\ missStreak = -1
  /\ autoCaptureCalls = 0
  /\ stopped = FALSE
  /\ CaptureIdle
  /\ evalIn = <<>>
  /\ evalOut = NotEvaluated
  /\ reqFile \in BOOLEAN
  /\ reqFilename \in Filenames(MaxSegments)
  /\ routeStatus = 0
  /\ written = NothingWritten

RouteNext == POST

RouteSpec == RouteInit /\ [][RouteNext]_vars

Next ==
  \/ Setup
  \/ StartCall
  \/ StartGumOk
  \/ StartGumFail
  \/ StartPlayOk
  \/ StartFirstLoop
  \/ StartPlayFail
  \/ StopCall
  \/ VideoLoads
  \/ RafFire

Spec == Init /\ [][Next]_vars

\* ================================================================= claims

\* C1: starting in Guide with closeFrameCount = 0, consecutive frames whose
\* face is close and not aligned leave the phase Guide after each of the
\* first 5 (the count equals the number of frames fed) and make it Locked on
\* the 6th.
C1_SixthCloseFrameLocks ==
  /\ closeStreak \in 1..5 =>
       /\ phase = "Guide"
       /\ closeFrameCount = closeStreak
  /\ closeStreak = 6 =>
       /\ phase = "Locked"
       /\ ~lastEvent.wasLocked

C1_Witness ==
  /\ closeStreak = 6
  /\ phase = "Locked"
  /\ lastEvent.prevClose = 5

\* C2: in Locked, counted from a close frame or from the locking frame, up
\* to 12 consecutive frames that have a face that is not close or have no
\* face leave the phase Locked, and the 13th reverts it to Guide; a close
\* frame starts the count again.
C2_ThirteenFarFramesRevert ==
  /\ farStreak \in 0..12 =>
       /\ phase = "Locked"
       /\ disengageCount = farStreak
  /\ farStreak = 13 =>
       /\ phase = "Guide"
       /\ lastEvent.wasLocked

C2_Witness ==
  /\ farStreak = 13
  /\ phase = "Guide"
  /\ lastEvent.kind = "none"

C4_CaptureOnSixtiethCloseFrame ==
  /\ closeSinceLock \in 1..59 => ~lastEvent.capture
  /\ closeSinceLock = 60 => lastEvent.capture
  /\ closeSinceLock = 61 => ~lastEvent.capture

\* C5: when startCamera has reset the refs and is about to run the first
\* frame, and whenever the camera is off, the phase is Guide, hasAutoCaptured
\* is false and the four frame counters are 0.
SessionReset ==
  /\ phase = "Guide"
  /\ ~hasAutoCaptured
  /\ closeFrameCount = 0
  /\ disengageCount = 0
  /\ missCount = 0
  /\ autoCaptureFrameCount = 0

C5_RestartResets ==
  /\ pc = "startLoop" => SessionReset
  /\ ~isCameraOn => SessionReset

\* startCamera is about to run the first frame with no loop alive (the
\* camera was stopped) and the mesh of the stopped session still on the
\* canvas (it was stopped in Locked).
C5_Witness ==
  /\ pc = "startLoop"
  /\ scheduled = 0
  /\ meshOnCanvas

\* C6: in Guide, a frame whose face is not close leaves closeFrameCount 0,
\* whatever it was.
C6_FarFrameResetsCloseCount ==
  (lastEvent.kind = "face" /\ ~lastEvent.isClose /\ ~lastEvent.wasLocked) =>
    /\ phase = "Guide"
    /\ closeFrameCount = 0

C6_Witness ==
  /\ lastEvent.kind = "face"
  /\ ~lastEvent.isClose
  /\ ~lastEvent.wasLocked
  /\ lastEvent.prevClose = 5
  /\ closeFrameCount = 0

\* C7: in Guide, a frame without a face leaves the phase Guide and
\* closeFrameCount 0.
C7_MissResetsCloseCount ==
  (lastEvent.kind = "none" /\ ~lastEvent.wasLocked) =>
    /\ phase = "Guide"
    /\ closeFrameCount = 0

\* The bounding box of a landmark set whose coordinates are all finite: the
\* smallest rectangle that encloses all its landmarks.
AllFinite(l) == \A i \in 1..Len(l) : isFinite(l[i].x) /\ isFinite(l[i].y)
NoFinitePoint(l) == \A i \in 1..Len(l) : ~(isFinite(l[i].x) /\ isFinite(l[i].y))
BoxLoX(l) == CHOOSE m \in {l[i].x.v : i \in 1..Len(l)} : \A i \in 1..Len(l) : m <= l[i].x.v
BoxHiX(l) == CHOOSE m \in {l[i].x.v : i \in 1..Len(l)} : \A i \in 1..Len(l) : m >= l[i].x.v
BoxLoY(l) == CHOOSE m \in {l[i].y.v : i \in 1..Len(l)} : \A i \in 1..Len(l) : m <= l[i].y.v
BoxHiY(l) == CHOOSE m \in {l[i].y.v : i \in 1..Len(l)} : \A i \in 1..Len(l) : m >= l[i].y.v
BoxAligned(l) ==
  /\ BoxHiX(l) - BoxLoX(l) >= 34
  /\ BoxHiY(l) - BoxLoY(l) >= 44
  /\ Abs(BoxLoX(l) + BoxHiX(l) - 100) <= 24
  /\ Abs(BoxLoY(l) + BoxHiY(l) - 100) <= 24

\* C8: for a landmark set that has a bounding box, evaluateAlignment returns
\* isAligned = true exactly when the box is at least 0.34 wide and 0.44 high
\* and its centre is within 0.12 of 0.5 on each axis.
C8_AlignedIffBoxLargeAndCentred ==
  (evalOut.done /\ evalIn # <<>> /\ AllFinite(evalIn)) =>
    (evalOut.isAligned <=> BoxAligned(evalIn))

\* An aligned set whose centre lies exactly at the tolerance on the x axis.
C8_Witness ==
  /\ evalOut.done
  /\ evalIn # <<>>
  /\ AllFinite(evalIn)
  /\ evalOut.isAligned
  /\ BoxLoX(evalIn) + BoxHiX(evalIn) = 76

\* C9: for a landmark set that is empty or has no point with finite
\* coordinates, evaluateAlignment returns isAligned = false, isClose = false.
C9_NoFinitePointNoVerdict ==
  (evalOut.done /\ NoFinitePoint(evalIn)) =>
    (~evalOut.isAligned /\ ~evalOut.isClose)

\* A set of two points spanning the whole plane with infinite coordinates.
C9_Witness ==
  /\ evalOut.done
  /\ Len(evalIn) = 2
  /\ NoFinitePoint(evalIn)
  /\ evalIn[1].x = PInf /\ evalIn[1].y = PInf
  /\ evalIn[2].x = NInf /\ evalIn[2].y = NInf

\* C10: the phase is Locked exactly when the canvas shows the mesh.
C10_LockedIffMeshShown ==
  (phase = "Locked") <=> meshOnCanvas

\* C11: a frame that takes the phase from Locked to Guide ends with
\* closeFrameCount, disengageCount, missCount and autoCaptureFrameCount at 0,
\* lastLandmarks cleared and animationStart cleared.
C11_ReversionClearsEverything ==
  [][(hasAnimationStarted /\ ~hasAnimationStarted' /\ lastEvent' # ResetEvent) =>
       /\ closeFrameCount' = 0
       /\ disengageCount' = 0
       /\ missCount' = 0
       /\ autoCaptureFrameCount' = 0
       /\ lastLandmarks' = "null"
       /\ animationStart' = NoTime]_vars

\* C12: a frame callback on which detectForVideo throws leaves the phase,
\* disengageCount, missCount and lastLandmarks as a frame with an empty
\* detection result would, and a next iteration is scheduled after it.
C12_ThrowIsEmptyDetection ==
  [][(isCameraOn /\ FrameThrows /\ RafFire) =>
       LET e == ProcessFrame(Eng, "none", <<>>)
       IN /\ hasAnimationStarted' = e.hasAnimationStarted
          /\ disengageCount' = e.disengageCount
          /\ missCount' = e.missCount
          /\ lastLandmarks' = e.lastLandmarks
          /\ scheduled' >= 1]_vars

\* C13: at most one loop iteration is scheduled or about to run.
C13_AtMostOneIteration ==
  scheduled + (IF pc = "startLoop" THEN 1 ELSE 0) <= 1

\* C14: after stopCamera has ended an active session no iteration is
\* scheduled, and until startCamera is called again the camera stays off and
\* no step changes the engagement state.
C14_StoppedStaysStopped ==
  /\ [](stopped => (~isCameraOn /\ scheduled = 0))
  /\ [][(stopped /\ nGum' <= nGum) => (~isCameraOn' /\ UNCHANGED engVars)]_vars

\* C15: no captureScreenshot call is rejected, and a step in which the
\* background save or the auto-upload of a capture settles, with success or
\* with failure, leaves the captured artifact as it is.
SinkSettled(c) ==
  \/ capCalls[c].save = "pending" /\ capCalls'[c].save # "pending"
  \/ capCalls[c].upload = "pending" /\ capCalls'[c].upload # "pending"

C15_SinkFailureKeepsArtifact ==
  /\ [](\A c \in 1..MaxCaptures : capCalls[c].result # "rejected")
  /\ [][(\E c \in 1..MaxCaptures : SinkSettled(c)) => artifact' = artifact]_vars

\* An automatic capture whose save threw and whose upload failed has
\* resolved, and its artifact is held.
C15_Witness ==
  \E c \in 1..MaxCaptures :
    /\ capCalls[c].autoUpload
    /\ capCalls[c].save = "threw"
    /\ capCalls[c].upload = "network"
    /\ capCalls[c].result = "resolved"
    /\ artifact.held
    /\ artifact.blob = capCalls[c].blob

\* C16: a frame processed in Guide makes the phase Locked exactly when it
\* has a face whose verdict is aligned, or close with closeFrameCount brought
\* to 6; nothing but a frame makes the phase Locked.
C16_LocksIffAlignedOrSixClose ==
  /\ lastEvent.kind = "reset" => phase = "Guide"
  /\ (lastEvent.kind # "reset" /\ ~lastEvent.wasLocked) =>
       (phase = "Locked" <=>
          /\ lastEvent.kind = "face"
          /\ \/ lastEvent.isAligned
             \/ lastEvent.isClose /\ lastEvent.prevClose + 1 >= 6)

\* An aligned face locks on the first frame of a session.
C16_Witness ==
  /\ lastEvent.kind = "face"
  /\ lastEvent.isAligned
  /\ ~lastEvent.wasLocked
  /\ lastEvent.prevClose = 0
  /\ phase = "Locked"
  /\ missStreak = 0
  /\ closeStreak = 0

\* C17: in Locked, a frame whose face is not close and a frame without a
\* face both leave autoCaptureFrameCount at 0.
C17_NotCloseResetsAutoCaptureCount ==
  (lastEvent.wasLocked /\ (lastEvent.kind = "none" \/
                           (lastEvent.kind = "face" /\ ~lastEvent.isClose))) =>
    autoCaptureFrameCount = 0

\* C18: counted from a frame with a face, up to 45 consecutive frames without
\* one keep lastLandmarks (missCount is their number, 0 after the frame with
\* the face), and from the 46th on lastLandmarks is null.
C18_LandmarksKeptForFortyFiveMisses ==
  /\ missStreak \in 0..45 =>
       /\ lastLandmarks = "faces"
       /\ missCount = missStreak
  /\ missStreak > 45 => lastLandmarks = "null"

C18_Witness ==
  /\ missStreak = 46
  /\ lastLandmarks = "null"
  /\ lastEvent.kind = "none"
  /\ phase = "Guide"

\* C19: a frame callback that runs while the camera is off changes no
\* engagement field and leaves one callback fewer pending; an iteration that
\* runs while the camera is on and the video is not ready changes no
\* engagement field and schedules exactly one callback.
C19_SkippedIterationChangesNothing ==
  [][/\ (~isCameraOn /\ scheduled > 0 /\ RafFire) =>
          (UNCHANGED engVars /\ scheduled' = scheduled - 1)
     /\ (isCameraOn /\ ~videoReady /\ scheduled > 0 /\ RafFire) =>
          (UNCHANGED engVars /\ scheduled' = scheduled)
     /\ (~videoReady /\ pc = "startLoop" /\ StartFirstLoop) =>
          (UNCHANGED engVars /\ scheduled' = scheduled + 1)]_vars

\* The video source was replaced while the mesh was unlocked and partway to
\* the automatic capture: the loop is alive and the video is not ready.
C19_Witness ==
  /\ isCameraOn
  /\ ~videoReady
  /\ scheduled = 1
  /\ phase = "Locked"
  /\ autoCaptureFrameCount > 0
  /\ animationStart = MaxElapsed

\* A step in which capture c reports an error: it returns at line 666 or 680,
\* toBlob gives null, the local save fails or the upload fails.
CaptureErrorStep(c) ==
  \/ capCalls[c].stage = "idle" /\ capCalls'[c].stage = "done"
  \/ capCalls[c].stage = "blob" /\ capCalls'[c].stage = "done"
  \/ capCalls[c].save = "pending" /\ capCalls'[c].save \in {"notOk", "threw"}
  \/ capCalls[c].upload = "pending" /\ capCalls'[c].upload \in {"status", "network"}

\* C21: a step in which a capture or one of its sinks reports an error leaves
\* the camera on and the loop scheduled as they were and changes no
\* engagement field; when the error is reported inside the iteration that
\* fired the automatic trigger, that iteration's own update stands: the phase
\* is kept and the latch is set.
C21_CaptureErrorsLeaveEngagement ==
  [][\A c \in 1..MaxCaptures :
       CaptureErrorStep(c) =>
         /\ isCameraOn' = isCameraOn
         /\ stream' = stream
         /\ scheduled' = scheduled
         /\ IF autoCaptureCalls' # autoCaptureCalls
            THEN hasAutoCaptured' /\ hasAnimationStarted' = hasAnimationStarted
            ELSE UNCHANGED engVars]_vars

\* The automatic capture failed to rasterize: nothing was stored, the camera
\* is on, the mesh is unlocked and the latch is still set.
C21_Witness ==
  \E c \in 1..MaxCaptures :
    /\ capCalls[c].autoUpload
    /\ capCalls[c].stage = "done"
    /\ capCalls[c].blob # 0
    /\ capCalls[c].save = "none"
    /\ capCalls[c].result = "resolved"
    /\ isCameraOn
    /\ phase = "Locked"
    /\ hasAutoCaptured
    /\ autoCaptureFrameCount = AUTO_CAPTURE_FRAMES

IsFinitePoint(p) == isFinite(p.x) /\ isFinite(p.y)
FiniteOnly(landmarks) == SelectSeq(landmarks, IsFinitePoint)

\* C22: for a landmark set with at least one finite point, the verdict is the
\* verdict of its finite points alone: points with a NaN or infinite
\* coordinate do not change it.
C22_NonFinitePointsIgnored ==
  (evalOut.done /\ FiniteOnly(evalIn) # <<>>) =>
     /\ evalOut.isAligned = evaluateAlignment(FiniteOnly(evalIn)).isAligned
     /\ evalOut.isClose = evaluateAlignment(FiniteOnly(evalIn)).isClose

\* C24: every iteration of renderLoop leaves console.error naming the
\* function it named when the iteration began, an iteration whose detection
\* call throws included.
C24_ConsoleErrorRestored ==
  [][(pc = "idle" /\ scheduled > 0 /\ RafFire) => consoleError' = consoleError]_vars

\* C23: the step that takes the phase from Guide to Locked ends with
\* closeFrameCount and disengageCount at 0 and the animation clock started at
\* that frame's timestamp (0 back from now), and leaves hasAutoCaptured and
\* autoCaptureFrameCount as they were.
C23_LockingFrameState ==
  [][(~hasAnimationStarted /\ hasAnimationStarted') =>
        /\ closeFrameCount' = 0
        /\ disengageCount' = 0
        /\ animationStart' = 0
        /\ hasAutoCaptured' = hasAutoCaptured
        /\ autoCaptureFrameCount' = autoCaptureFrameCount]_vars

\* The sixth close frame has just unlocked the mesh again, with a count left
\* from the earlier lock.
C23_Witness ==
  /\ phase = "Locked"
  /\ lastEvent.kind = "face"
  /\ ~lastEvent.wasLocked
  /\ lastEvent.prevClose = CLOSE_UNLOCK_FRAMES - 1
  /\ animationStart = 0
  /\ closeFrameCount = 0
  /\ autoCaptureFrameCount > 0

\* C25: the blob and the preview image of the held artifact encode the same
\* video frame.
C25_PreviewMatchesBlob ==
  artifact.held => artifact.dataUrl = artifact.blob

\* C26: while the camera is off after a stop, no captured artifact is held.
C26_NothingHeldAfterStop ==
  ~isCameraOn => ~artifact.held

\* C27: whenever the phase is Locked, landmarks are kept, the animation clock
\* is started and not ahead of now, and missCount <= disengageCount <= 12.
C27_LockedHasLandmarksAndClock ==
  phase = "Locked" =>
    /\ lastLandmarks # "null"
    /\ animationStart # NoTime
    /\ animationStart >= 0
    /\ missCount <= disengageCount
    /\ disengageCount <= DISENGAGE_FRAME_LIMIT

\* Twelve frames without a face in a row while Locked: the landmarks of the
\* last face are still kept.
C27_Witness ==
  /\ phase = "Locked"
  /\ lastEvent.kind = "none"
  /\ missCount = DISENGAGE_FRAME_LIMIT
  /\ disengageCount = DISENGAGE_FRAME_LIMIT
  /\ lastLandmarks = "faces"
  /\ animationStart = MaxElapsed

\* C28: closeFrameCount is in 0..5 and 0 while Locked, disengageCount is in
\* 0..12 and 0 while Guide, autoCaptureFrameCount is in 0..60 and is 60 only
\* when hasAutoCaptured is set.
C28_CounterRanges ==
  /\ closeFrameCount \in 0..(CLOSE_UNLOCK_FRAMES - 1)
  /\ phase = "Locked" => closeFrameCount = 0
  /\ disengageCount \in 0..DISENGAGE_FRAME_LIMIT
  /\ phase = "Guide" => disengageCount = 0
  /\ autoCaptureFrameCount \in 0..AUTO_CAPTURE_FRAMES
  /\ autoCaptureFrameCount = AUTO_CAPTURE_FRAMES => hasAutoCaptured

\* After the automatic capture the face went away and the mesh was locked
\* again: the count is still 60 in Guide, with five close frames counted.
C28_Witness ==
  /\ phase = "Guide"
  /\ closeFrameCount = CLOSE_UNLOCK_FRAMES - 1
  /\ autoCaptureFrameCount = AUTO_CAPTURE_FRAMES
  /\ hasAutoCaptured
  /\ lastEvent.kind = "face"

\* C29: for every landmark set, a verdict with isAligned = true has
\* isClose = true.
C29_AlignedImpliesClose ==
  evalOut.done => (evalOut.isAligned => evalOut.isClose)

\* An aligned set whose box has exactly the smallest aligned size, 0.34 by
\* 0.44: it is close as well.
C29_Witness ==
  /\ evalOut.done
  /\ evalOut.isAligned
  /\ evalOut.isClose
  /\ AllFinite(evalIn)
  /\ BoxHiX(evalIn) - BoxLoX(evalIn) = minWidth
  /\ BoxHiY(evalIn) - BoxLoY(evalIn) = minHeight

InsidePublicDir(path) ==
  /\ Len(path) > Len(PublicDir)
  /\ SubSeq(path, 1, Len(PublicDir)) = PublicDir

\* C30: every file the route writes lies inside public/captured-images.
C30_WritesStayInPublicDir ==
  written.done => InsidePublicDir(written.path)

=============================================================================
